---- MODULE Spec2Model ----
(***************************************************************************)
(* Student registration (src/app.js): a form with four fields, validated   *)
(* on submit, whose records are kept in the in-memory list `students` and   *)
(* mirrored into one localStorage slot.  Strings are sequences of           *)
(* one-character strings, so that trim, the regular expressions and the     *)
(* JSON text are computed character by character / token by token.          *)
(***************************************************************************)
EXTENDS Integers, Sequences, FiniteSets, TLC

VARIABLES
    students,   \* app.js:37  in-memory list of records
    editingId,  \* app.js:38  id of the record being edited, or NoId (null)
    form,       \* app.js:12-15  .value of the four inputs
    errs,       \* app.js:20-23  .textContent of the four error elements
    saveBtn,    \* app.js:79, 176  textContent of #saveBtn
    slot,       \* localStorage item STORAGE_KEY: NoItem or its text
    table,      \* what renderStudents last put into #studentsBody
    wrote,      \* did the last handler call localStorage.setItem
    last,       \* the last event handled and how it ended
    probe       \* SpecV only: a raw string and the validators' answers

vars == <<students, editingId, form, errs, saveBtn, slot, table, wrote, last, probe>>

----------------------------------------------------------------------------
(* Bounds *)

\* Add is disabled once the roster holds this many records.
MaxStudents == 2

----------------------------------------------------------------------------
(* Characters and strings *)

Digits == {"0", "1", "2", "3", "4", "5", "6", "7", "8", "9"}
Letters == {"A", "B", "a", "b", "c", "x"}
\* \s of the regular expressions and the white space String.trim removes
Whitespace == {" "}

\* String.prototype.trim: drop leading and trailing white space
RECURSIVE TrimLeft(_)
TrimLeft(s) ==
    IF s = <<>> THEN <<>>
    ELSE IF Head(s) \in Whitespace THEN TrimLeft(Tail(s)) ELSE s

RECURSIVE TrimRight(_)
TrimRight(s) ==
    IF s = <<>> THEN <<>>
    ELSE IF s[Len(s)] \in Whitespace THEN TrimRight(SubSeq(s, 1, Len(s) - 1)) ELSE s

Trim(s) == TrimRight(TrimLeft(s))

\* value.replace(/[^...]/g, ''): keep the characters of `keep`, in order
RECURSIVE Strip(_, _)
Strip(s, keep) ==
    IF s = <<>> THEN <<>>
    ELSE IF Head(s) \in keep THEN <<Head(s)>> \o Strip(Tail(s), keep)
         ELSE Strip(Tail(s), keep)

AllIn(s, set) == \A i \in 1..Len(s) : s[i] \in set

----------------------------------------------------------------------------
(* Validation functions, app.js:41-64 and 239-243 *)

validateName(name) ==
    IF Trim(name) = <<>> THEN "Name is required"
    ELSE IF ~AllIn(Trim(name), Letters \cup Whitespace)
         THEN "Name must have letters and spaces only"
    ELSE ""

validateSID(sid) ==
    IF Trim(sid) = <<>> THEN "Student ID is required"
    ELSE IF ~AllIn(Trim(sid), Digits) THEN "Student ID must be numeric"
    ELSE ""

\* /^[^\s@]+@[^\s@]+\.[^\s@]+$/ : an "@" at i, a "." at j, non-empty runs
\* before i, between i and j, and after j, none holding white space or "@".
EmailRe(s) ==
    \E i \in 2..Len(s) :
        /\ s[i] = "@"
        /\ \A k \in (1..Len(s)) \ {i} : s[k] \notin (Whitespace \cup {"@"})
        /\ \E j \in (i + 2)..(Len(s) - 1) : s[j] = "."

validateEmail(email) ==
    IF Trim(email) = <<>> THEN "Email is required"
    ELSE IF ~EmailRe(Trim(email)) THEN "Enter a valid email"
    ELSE ""

\* first declaration, app.js:59-64
validateContactFirst(contact) ==
    IF Trim(contact) = <<>> THEN "Contact is required"
    ELSE IF ~AllIn(Trim(contact), Digits) THEN "Contact must be numeric"
    ELSE IF Len(Trim(contact)) < 10 THEN "Contact must be at least 10 digits"
    ELSE ""

\* second declaration, app.js:239-243
validateContactSecond(contact) ==
    IF Trim(contact) = <<>> THEN "Contact number is required"
    ELSE IF Len(Trim(contact)) # 10 THEN "Contact number must be exactly 10 digits"
    ELSE ""

\* mutant: the first declaration is the one the calls see
validateContactEarlier(contact) == validateContactFirst(contact)

\* Two function declarations of one name in one scope: both are hoisted and
\* the later one is the binding every call sees, the submit handler's included.
validateContact(contact) == validateContactSecond(contact)

----------------------------------------------------------------------------
(* Records *)

\* editingId = null (app.js:38, 78); no generated id is the empty string
NoId == <<>>

\* Values Date.now().toString(36) + Math.random()... may return (app.js:162)
Ids == {<<"k", "1">>, <<"k", "2">>}

Student(id, data) ==
    [id |-> id, name |-> data.name, sid |-> data.sid,
     email |-> data.email, contact |-> data.contact]

\* What a property read gives when the value read from has no such property
Undefined == <<"#undefined">>

\* The Number Infinity as an element of the list: it has none of the five
\* properties, so every read of one gives undefined.
Infinity ==
    [id |-> Undefined, name |-> Undefined, sid |-> Undefined,
     email |-> Undefined, contact |-> Undefined]

\* null as an element of a list that JSON.parse returned
Null ==
    [id |-> <<"#null">>, name |-> <<"#null">>, sid |-> <<"#null">>,
     email |-> <<"#null">>, contact |-> <<"#null">>]

\* CLEAR_FORM without its id, app.js:25-31: what studentForm.reset() leaves
EmptyFields == [name |-> <<>>, sid |-> <<>>, email |-> <<>>, contact |-> <<>>]

----------------------------------------------------------------------------
(* Persistence, app.js:83-97.  The text of the slot is a sequence of JSON  *)
(* tokens; commas and colons are left out.                                  *)

Tok(t) == [t |-> t, v |-> <<>>]
StrTok(s) == [t |-> "str", v |-> s]

\* localStorage.getItem returns null for a key that was never set
NoItem == [present |-> FALSE, text |-> <<>>]
Item(text) == [present |-> TRUE, text |-> text]

\* JSON.stringify of one record: keys in insertion order, id first (app.js:163)
ObjectText(r) ==
    << Tok("{"), Tok("id:"), StrTok(r.id), Tok("name:"), StrTok(r.name),
       Tok("sid:"), StrTok(r.sid), Tok("email:"), StrTok(r.email),
       Tok("contact:"), StrTok(r.contact), Tok("}") >>

ObjectLen == 12

\* JSON.stringify of one element: a non-finite number is written as null
ElementText(r) ==
    IF r \in {Infinity, Null} THEN <<Tok("null")>> ELSE ObjectText(r)

RECURSIVE ObjectsText(_)
ObjectsText(list) ==
    IF list = <<>> THEN <<>>
    ELSE ElementText(Head(list)) \o ObjectsText(Tail(list))

\* JSON.stringify(list)
Stringify(list) == <<Tok("[")>> \o ObjectsText(list) \o <<Tok("]")>>

IsObjectText(t) ==
    /\ Len(t) = ObjectLen
    /\ <<t[1].t, t[2].t, t[4].t, t[6].t, t[8].t, t[10].t, t[12].t>>
         = <<"{", "id:", "name:", "sid:", "email:", "contact:", "}">>
    /\ \A i \in {3, 5, 7, 9, 11} : t[i].t = "str"

ObjectOf(t) ==
    [id |-> t[3].v, name |-> t[5].v, sid |-> t[7].v,
     email |-> t[9].v, contact |-> t[11].v]

\* the elements of an array text, or a syntax error
RECURSIVE ParseObjects(_)
ParseObjects(t) ==
    IF t = <<>> THEN [ok |-> TRUE, val |-> <<>>]
    ELSE IF t[1].t \in {"1e999", "null"}
    THEN LET rest == ParseObjects(Tail(t))
         IN  [ok |-> rest.ok,
              val |-> IF rest.ok
                      THEN <<IF t[1].t = "null" THEN Null ELSE Infinity>> \o rest.val
                      ELSE <<>>]
    ELSE IF Len(t) >= ObjectLen /\ IsObjectText(SubSeq(t, 1, ObjectLen))
    THEN LET rest == ParseObjects(SubSeq(t, ObjectLen + 1, Len(t)))
         IN  [ok |-> rest.ok,
              val |-> IF rest.ok
                      THEN <<ObjectOf(SubSeq(t, 1, ObjectLen))>> \o rest.val
                      ELSE <<>>]
    ELSE [ok |-> FALSE, val |-> <<>>]

\* JSON.parse on the texts modelled: a string, or an array whose elements are
\* record objects, null, or the number 1e999, which is beyond the range of a
\* double and is read as Infinity.  ok = FALSE stands for the SyntaxError it
\* throws.
ParseJSON(t) ==
    IF Len(t) = 1 /\ t[1].t = "str"
    THEN [ok |-> TRUE, isArray |-> FALSE, val |-> <<>>]
    ELSE IF Len(t) >= 2 /\ t[1].t = "[" /\ t[Len(t)].t = "]"
    THEN LET elems == ParseObjects(SubSeq(t, 2, Len(t) - 1))
         IN  [ok |-> elems.ok, isArray |-> elems.ok, val |-> elems.val]
    ELSE [ok |-> FALSE, isArray |-> FALSE, val |-> <<>>]

\* the try block of loadFromStorage: what it returns, or that it threw
loadTry(s) ==
    IF ~s.present \/ s.text = <<>>                    \* if (!raw) return []
    THEN [threw |-> FALSE, val |-> <<>>]
    ELSE LET parsed == ParseJSON(s.text)
         IN  IF ~parsed.ok THEN [threw |-> TRUE, val |-> <<>>]
             ELSE IF ~parsed.isArray                   \* !Array.isArray(parsed)
                  THEN [threw |-> FALSE, val |-> <<>>]
             ELSE [threw |-> FALSE, val |-> parsed.val]

\* mutant: no catch clause, the exception reaches the caller
loadCallUncaught(s) ==
    [raised |-> loadTry(s).threw, val |-> loadTry(s).val]

\* a call of loadFromStorage: try, and catch (e) { return [] }
loadCall(s) ==
    IF loadTry(s).threw
    THEN [raised |-> FALSE, val |-> <<>>]
    ELSE [raised |-> FALSE, val |-> loadTry(s).val]

loadFromStorage(s) == loadCall(s).val

\* mutant: the list is stored without JSON.stringify, so setItem converts it
\* with String(): "" for an empty list, "[object Object],..." otherwise
saveToStorageUnserialized(list) ==
    IF list = <<>> THEN Item(<<>>) ELSE Item(<<Tok("[object Object]")>>)

saveToStorage(list) == Item(Stringify(list))

----------------------------------------------------------------------------
(* Rendering, app.js:100-157 *)

EscapeChar(c) ==
    CASE c = "&" -> <<"&", "a", "m", "p", ";">>
      [] c = "<" -> <<"&", "l", "t", ";">>
      [] c = ">" -> <<"&", "g", "t", ";">>
      [] c = "\"" -> <<"&", "q", "u", "o", "t", ";">>
      [] c = "'" -> <<"&", "#", "0", "3", "9", ";">>
      [] OTHER -> <<c>>

RECURSIVE EscapeChars(_)
EscapeChars(str) ==
    IF str = <<>> THEN <<>> ELSE EscapeChar(Head(str)) \o EscapeChars(Tail(str))

\* escapeHtml(str = ''): undefined takes the default
escapeHtml(str) == IF str = Undefined THEN <<>> ELSE EscapeChars(str)

\* The text a cell shows for the markup assigned to innerHTML: the parser
\* replaces each character reference by its character.
Entities ==
    { [ref |-> <<"&", "a", "m", "p", ";">>, char |-> "&"],
      [ref |-> <<"&", "l", "t", ";">>, char |-> "<"],
      [ref |-> <<"&", "g", "t", ";">>, char |-> ">"],
      [ref |-> <<"&", "q", "u", "o", "t", ";">>, char |-> "\""],
      [ref |-> <<"&", "#", "0", "3", "9", ";">>, char |-> "'"] }

RECURSIVE CellText(_)
CellText(markup) ==
    IF markup = <<>> THEN <<>>
    ELSE LET found == {e \in Entities :
                          /\ Len(e.ref) <= Len(markup)
                          /\ SubSeq(markup, 1, Len(e.ref)) = e.ref}
         IN  IF found = {}
             THEN <<Head(markup)>> \o CellText(Tail(markup))
             ELSE LET e == CHOOSE x \in found : TRUE
                  IN  <<e.char>> \o CellText(SubSeq(markup, Len(e.ref) + 1, Len(markup)))

\* `${s.id}` in the template literal
IdText(id) ==
    IF id = Undefined THEN <<"u", "n", "d", "e", "f", "i", "n", "e", "d">> ELSE id

\* rows above this count make the table wrapper scroll, app.js:140
ScrollRows == 5

Row(list, idx) ==
    [num |-> idx, name |-> escapeHtml(list[idx].name), sid |-> escapeHtml(list[idx].sid),
     email |-> escapeHtml(list[idx].email), contact |-> escapeHtml(list[idx].contact),
     dataId |-> IdText(list[idx].id)]

\* the body renderStudents builds for the list: a placeholder row when the
\* list is empty, else one row per record; and whether the wrapper scrolls
renderStudents(list) ==
    [placeholder |-> (Len(list) = 0),
     rows |-> [idx \in 1..Len(list) |-> Row(list, idx)],
     scroll |-> (Len(list) > ScrollRows)]

----------------------------------------------------------------------------
(* Inputs: what the user's editing, or the browser, may leave in a field *)

Fields == {"name", "sid", "email", "contact"}

D5 == <<"1", "2", "3", "4", "5">>
D10 == D5 \o <<"6", "7", "8", "9", "0">>
D11 == D10 \o <<"1">>
\* ten characters, five of them digits
M10 == D5 \o <<"a", "b", "c", "a", "b">>

\* what each input listener keeps, app.js:249-258 (email has no listener)
Kept ==
    [name |-> Letters \cup Whitespace, sid |-> Digits, contact |-> Digits]

\* the value an input event's listener leaves in field f when the user's
\* edit made it v
Sanitized(f, v) == IF f \in DOMAIN Kept THEN Strip(v, Kept[f]) ELSE v

\* what an edit may leave in a field before its listener runs
TypedValues ==
    [name |-> { <<>>, <<"A", "1">> },
     sid |-> { <<>>, <<"1">>, <<"2", "x">> },
     email |-> { <<>>, <<"&", "@", "<", ".", "c">> },
     contact |-> { D10 \o <<"x">>, D11 }]

\* what the browser may put into a field with no input event dispatched (a
\* restored session, autofill), so that no listener rewrites it
UntouchedValues ==
    [name |-> {}, sid |-> {}, email |-> {}, contact |-> { M10 }]

\* the values field f may hold when submit is pressed
FieldInputs(f) ==
    {Sanitized(f, v) : v \in TypedValues[f]} \cup UntouchedValues[f]

AllForms ==
    [name : FieldInputs("name"), sid : FieldInputs("sid"),
     email : FieldInputs("email"), contact : FieldInputs("contact")]

\* The forms submitted: every form whose fields are all filled and whose
\* contact has ten characters, and every combination of empty fields, of
\* an eleven-digit contact and of one choice of valid values.
FormInputs ==
    {f \in AllForms :
        \/ f.name # <<>> /\ f.sid # <<>> /\ f.email # <<>> /\ f.contact # D11
        \/ f.sid # <<"2">> /\ f.contact # M10}

\* a roster an earlier session saved
SavedRoster ==
    << [id |-> <<"k", "1">>, name |-> <<"A">>, sid |-> <<"1">>,
        email |-> <<"a", "@", "b", ".", "c">>, contact |-> D10] >>

\* the content of the slot when the page loads
InitSlots ==
    { NoItem,                                         \* never written
      Item(<<>>),                                     \* the empty string
      Item(<<Tok("["), Tok("{")>>),                   \* not JSON
      Item(<<StrTok(<<"x">>)>>),                      \* JSON, not an array
      Item(Stringify(<<>>)),
      Item(Stringify(SavedRoster)) }

\* contents of the slot that are JSON arrays and that saveToStorage did not
\* write: the number 1e999, alone or after a record
ForeignSlots ==
    { Item(<<Tok("["), Tok("1e999"), Tok("]")>>),
      Item(<<Tok("[")>> \o ObjectText(SavedRoster[1]) \o <<Tok("1e999"), Tok("]")>>) }

----------------------------------------------------------------------------
(* Form helpers, app.js:66-80 *)

\* errX.textContent = errors.x || ''
showErrors(errors) ==
    [f \in Fields |-> IF f \in DOMAIN errors THEN errors[f] ELSE ""]

NoErrors == [f \in {} |-> ""]

\* mutant: editingId is not reset
clearFormKeepsTarget ==
    /\ form' = EmptyFields
    /\ errs' = showErrors(NoErrors)
    /\ UNCHANGED editingId
    /\ saveBtn' = "Save"

\* mutant: the label of the submit button is left as it is
clearFormKeepsLabel ==
    /\ form' = EmptyFields
    /\ errs' = showErrors(NoErrors)
    /\ editingId' = NoId
    /\ UNCHANGED saveBtn

clearForm ==
    /\ form' = EmptyFields                \* studentForm.reset()
    /\ errs' = showErrors(NoErrors)
    /\ editingId' = NoId
    /\ saveBtn' = "Save"

----------------------------------------------------------------------------
(* CRUD functions, app.js:160-193 *)

\* Array.prototype.findIndex; 0 stands for -1
findIndex(list, id) ==
    IF \E i \in 1..Len(list) : list[i].id = id
    THEN CHOOSE i \in 1..Len(list) :
            /\ list[i].id = id
            /\ \A j \in 1..(i - 1) : list[j].id # id
    ELSE 0

\* mutant: unshift for push
addStudentUnshifts(data) ==
    \E id \in Ids :
        /\ students' = <<Student(id, data)>> \o students
        /\ slot' = saveToStorage(students')
        /\ table' = renderStudents(students')
        /\ wrote' = TRUE

addStudent(data) ==
    \E id \in Ids :
        /\ students' = Append(students, Student(id, data))
        /\ slot' = saveToStorage(students')
        /\ table' = renderStudents(students')
        /\ wrote' = TRUE

startEdit(id) ==
    LET idx == findIndex(students, id) IN
    IF idx = 0
    THEN UNCHANGED <<editingId, form, saveBtn>>
    ELSE /\ editingId' = id
         /\ form' = [name |-> students[idx].name, sid |-> students[idx].sid,
                     email |-> students[idx].email, contact |-> students[idx].contact]
         /\ saveBtn' = "Update"

\* mutant: the new record is pushed, not assigned to its index
updateStudentPushes(id, newData) ==
    LET idx == findIndex(students, id) IN
    IF idx = 0
    THEN /\ UNCHANGED <<students, slot, table>>
         /\ wrote' = FALSE
    ELSE /\ students' = Append(students, Student(id, newData))
         /\ slot' = saveToStorage(students')
         /\ table' = renderStudents(students')
         /\ wrote' = TRUE

\* mutant: the record is replaced and saved, the table is not rendered again
updateStudentUnrendered(id, newData) ==
    LET idx == findIndex(students, id) IN
    IF idx = 0
    THEN /\ UNCHANGED <<students, slot, table>>
         /\ wrote' = FALSE
    ELSE /\ students' = [students EXCEPT ![idx] = Student(id, newData)]
         /\ slot' = saveToStorage(students')
         /\ UNCHANGED table
         /\ wrote' = TRUE

updateStudent(id, newData) ==
    LET idx == findIndex(students, id) IN
    IF idx = 0
    THEN /\ UNCHANGED <<students, slot, table>>
         /\ wrote' = FALSE
    ELSE /\ students' = [students EXCEPT ![idx] = Student(id, newData)]
         /\ slot' = saveToStorage(students')
         /\ table' = renderStudents(students')
         /\ wrote' = TRUE

\* mutant: the list is filtered and rendered, not saved
deleteStudentUnsaved(id, confirmed) ==
    IF ~confirmed
    THEN /\ UNCHANGED <<students, slot, table>>
         /\ wrote' = FALSE
    ELSE /\ students' = SelectSeq(students, LAMBDA s : s.id # id)
         /\ table' = renderStudents(students')
         /\ UNCHANGED slot
         /\ wrote' = FALSE

\* mutant: the answer of confirm() is not looked at
deleteStudentUnasked(id, confirmed) ==
    /\ students' = SelectSeq(students, LAMBDA s : s.id # id)
    /\ slot' = saveToStorage(students')
    /\ table' = renderStudents(students')
    /\ wrote' = TRUE

deleteStudent(id, confirmed) ==
    IF ~confirmed
    THEN /\ UNCHANGED <<students, slot, table>>
         /\ wrote' = FALSE
    ELSE /\ students' = SelectSeq(students, LAMBDA s : s.id # id)
         /\ slot' = saveToStorage(students')
         /\ table' = renderStudents(students')
         /\ wrote' = TRUE

----------------------------------------------------------------------------
(* Submit handler, app.js:196-235 *)

\* collect values
Collected(filled) ==
    [name |-> Trim(filled.name), sid |-> Trim(filled.sid),
     email |-> Trim(filled.email), contact |-> Trim(filled.contact)]

\* mutant: the validators after the first one that fails are not called
ValidateUntilFirst(d) ==
    [name |-> validateName(d.name),
     sid |-> IF validateName(d.name) # "" THEN "" ELSE validateSID(d.sid),
     email |-> IF validateName(d.name) # "" \/ validateSID(d.sid) # ""
               THEN "" ELSE validateEmail(d.email),
     contact |-> IF validateName(d.name) # "" \/ validateSID(d.sid) # ""
                    \/ validateEmail(d.email) # ""
                 THEN "" ELSE validateContact(d.contact)]

Validate(d) ==
    [name |-> validateName(d.name), sid |-> validateSID(d.sid),
     email |-> validateEmail(d.email), contact |-> validateContact(d.contact)]

\* mutant: the contact message is left out of the test
AnyErrorButContact(errors) ==
    errors.name # "" \/ errors.sid # "" \/ errors.email # ""

AnyError(errors) ==
    errors.name # "" \/ errors.sid # "" \/ errors.email # "" \/ errors.contact # ""

\* mutant: === for !== in the comparison of ids
duplicateOfEdited(sid) ==
    \E i \in 1..Len(students) : students[i].sid = sid /\ students[i].id = editingId

\* students.some(s => s.sid === sid && s.id !== editingId)
duplicate(sid) ==
    \E i \in 1..Len(students) : students[i].sid = sid /\ students[i].id # editingId

DuplicateMsg == "This Student ID already exists"

\* The submit handler on a form whose fields hold `filled`.
SubmitForm(filled) ==
    \E d \in {Collected(filled)} : \E errors \in {Validate(d)} :
        IF AnyError(errors)
        THEN /\ errs' = showErrors(errors)
             /\ form' = filled
             /\ wrote' = FALSE
             /\ last' = "rejected"
             /\ UNCHANGED <<students, editingId, saveBtn, slot, table>>
        ELSE IF duplicate(d.sid)
        THEN /\ errs' = showErrors([sid |-> DuplicateMsg])
             /\ form' = filled
             /\ wrote' = FALSE
             /\ last' = "duplicate"
             /\ UNCHANGED <<students, editingId, saveBtn, slot, table>>
        ELSE IF editingId # NoId
        THEN /\ updateStudent(editingId, d)
             /\ clearForm
             /\ last' = IF findIndex(students, editingId) = 0 THEN "vanished" ELSE "updated"
        ELSE /\ Len(students) < MaxStudents
             /\ addStudent(d)
             /\ clearForm
             /\ last' = "added"

\* Between two handlers the user edits the fields; submit finds in them any
\* combination of the field inputs.
Submit == \E filled \in FormInputs : SubmitForm(filled)

----------------------------------------------------------------------------
(* The other handlers *)

\* Clear button, app.js:246
Clear ==
    /\ clearForm
    /\ wrote' = FALSE
    /\ last' = "clear"
    /\ UNCHANGED <<students, slot, table>>

\* the data-id of the buttons renderStudents made, app.js:116-117
ButtonIds == {table.rows[i].dataId : i \in DOMAIN table.rows}

\* click on an Edit button, app.js:125-130
EditClick(id) ==
    /\ startEdit(id)
    /\ wrote' = FALSE
    /\ last' = "edit"
    /\ UNCHANGED <<students, errs, slot, table>>

\* deleteStudent(id) with confirm()'s answer: a click on a Delete button,
\* app.js:131-136, or a call with any other id
DeleteClick(id, confirmed) ==
    /\ deleteStudent(id, confirmed)
    /\ last' = IF confirmed THEN "deleted" ELSE "declined"
    /\ UNCHANGED <<editingId, form, errs, saveBtn>>

----------------------------------------------------------------------------
(* Specification *)

\* the text of #saveBtn in the page's markup, before any handler sets it
InitialLabel == "Save"

NoProbe == [raw |-> <<>>, field |-> "", msg |-> ""]

\* init, app.js:261-264, on each content the slot may hold
Loaded ==
    /\ students = loadFromStorage(slot)
    /\ table = renderStudents(students)
    /\ editingId = NoId
    /\ form = EmptyFields
    /\ errs = showErrors(NoErrors)
    /\ saveBtn = InitialLabel
    /\ wrote = FALSE
    /\ last = "init"

InitPage == slot \in InitSlots /\ Loaded

Init == InitPage /\ probe = NoProbe

\* the page loaded on any of the contents, foreign ones included
InitStored == slot \in (InitSlots \cup ForeignSlots) /\ Loaded /\ probe = NoProbe

Next ==
    \/ Submit /\ UNCHANGED probe
    \/ Clear /\ UNCHANGED probe
    \/ \E id \in ButtonIds : EditClick(id) /\ UNCHANGED probe
    \/ \E id \in Ids, confirmed \in BOOLEAN : DeleteClick(id, confirmed) /\ UNCHANGED probe

Spec == Init /\ [][Next]_vars

\* the page loaded on a slot that holds no record
InitEmpty == Init /\ students = <<>>

SpecEmpty == InitEmpty /\ [][Next]_vars

SpecStored == InitStored /\ [][Next]_vars

----------------------------------------------------------------------------
(* The validators on their own: one raw string per behaviour, given to each *)
(* validator and, as the contact field of an otherwise valid form, to the    *)
(* submit handler.                                                           *)

ProbeStrings ==
    { <<>>, <<" ">>, <<" ", " ">>,
      D5, D10, D11, M10, <<" ">> \o D10 \o <<" ">>, <<" ">> \o D11,
      <<"1", "2", " ", "4", "5">>, D5 \o <<" ">> \o <<"6", "7", "8", "9">>,
      <<"1">>, <<"1", "x">>, <<" ", "7", " ">>,
      <<"A">>, <<"A", " ", "b">>, <<"A", "1">>, <<"a", "-", "b">>,
      <<"a", "@", "b", ".", "c">>, <<"a", "@", "b">>, <<"a", "@", "b", ".">>,
      <<"@", "b", ".", "c">>, <<"a", "@", ".", "c">>, <<"a", " ", "@", "b", ".", "c">>,
      <<"a", "@", "b", "@", "c", ".", "x">>, <<"a", ".", "b", "@", "c", ".", "x", ".", "b">> }

validatorOf(f, raw) ==
    CASE f = "name" -> validateName(raw)
      [] f = "sid" -> validateSID(raw)
      [] f = "email" -> validateEmail(raw)
      [] f = "contact" -> validateContact(raw)

InitV ==
    /\ InitPage
    /\ \E raw \in ProbeStrings : probe = [raw |-> raw, field |-> "", msg |-> ""]

ApplyValidator(f) ==
    /\ probe' = [raw |-> probe.raw, field |-> f, msg |-> validatorOf(f, probe.raw)]
    /\ UNCHANGED <<students, editingId, form, errs, saveBtn, slot, table, wrote, last>>

\* the form submitted with the probe as its contact and valid other fields
ProbeForm(sid) ==
    [name |-> <<"A">>, sid |-> sid,
     email |-> <<"a", "@", "b", ".", "c">>, contact |-> probe.raw]

SubmitProbe ==
    /\ \E sid \in { <<"1">>, <<"2">> } : SubmitForm(ProbeForm(sid))
    /\ UNCHANGED probe

NextV ==
    \/ \E f \in Fields : ApplyValidator(f)
    \/ SubmitProbe
    \/ \E id \in ButtonIds : EditClick(id) /\ UNCHANGED probe

SpecV == InitV /\ [][NextV]_vars

----------------------------------------------------------------------------
(* Properties *)

\* The forms a step may be the submit of: the handler leaves the fields as
\* they were submitted or resets them, so a step that ends with a field
\* filled is the submit of the form it ends with, if of any.
MaybeSubmitted ==
    IF form' = EmptyFields THEN FormInputs ELSE {form'} \cap FormInputs

\* a step of the submit handler on the form `filled`
SubmitStep(filled) == SubmitForm(filled)

\* the four values the handler collects from the form
Submitted(filled) ==
    [name |-> Trim(filled.name), sid |-> Trim(filled.sid),
     email |-> Trim(filled.email), contact |-> Trim(filled.contact)]

\* at least one of the four validators returns a message for the form
FailsValidation(filled) ==
    \E d \in {Submitted(filled)} :
        \/ validateName(d.name) # ""
        \/ validateSID(d.sid) # ""
        \/ validateEmail(d.email) # ""
        \/ validateContact(d.contact) # ""

SidsOf(list) == {list[i].sid : i \in DOMAIN list}
PositionsOf(list, id) == {i \in DOMAIN list : list[i].id = id}

\* C1: starting from an empty roster, no two records of the roster have the
\* same sid, whatever the sequence of submit, edit, clear and delete events.
C1_UniqueSid ==
    \A i, j \in DOMAIN students : students[i].sid = students[j].sid => i = j

\* what holds instead: two records with one sid carry one id
C1_SameSidSameId ==
    \A i, j \in DOMAIN students :
        students[i].sid = students[j].sid => students[i].id = students[j].id

\* C2: every submit either appends a record carrying the submitted fields
\* (Adding), or replaces the edited record by them (Editing), or ends with at
\* least one error message displayed.
C2_SubmitSucceedsOrShowsError ==
    [][\A filled \in MaybeSubmitted :
          SubmitStep(filled) =>
            \/ /\ editingId = NoId
               /\ \E id \in Ids : students' = Append(students, Student(id, Submitted(filled)))
            \/ /\ editingId # NoId
               /\ \E i \in PositionsOf(students, editingId) :
                     students' = [students EXCEPT ![i] = Student(editingId, Submitted(filled))]
            \/ \E f \in Fields : errs'[f] # ""]_vars

C4_DuplicateRejected ==
    [][\A filled \in MaybeSubmitted :
          ( /\ editingId = NoId
            /\ Submitted(filled).sid \in SidsOf(students)
            /\ ~FailsValidation(filled)
            /\ SubmitStep(filled) )
          => /\ errs' = [name |-> "", sid |-> "This Student ID already exists",
                         email |-> "", contact |-> ""]
             /\ students' = students
             /\ slot' = slot
             /\ wrote' = FALSE
             /\ editingId' = NoId
             /\ saveBtn' = saveBtn
             /\ form' = filled]_vars

C4_Witness ==
    /\ last = "duplicate"
    /\ editingId = NoId
    /\ Len(students) = 1
    /\ Trim(form.sid) = students[1].sid
    /\ errs.sid = "This Student ID already exists"

\* C5: in Editing(id) with the record present, a submit that passes
\* validation and the duplicate check puts the submitted name, sid, email and
\* contact into that record, which keeps its id and its position; no other
\* record and not the length changes; the controller is in Adding afterwards
\* and the label is "Save".
C5_UpdateInPlace ==
    [][\A filled \in MaybeSubmitted :
          ( /\ editingId # NoId
            /\ PositionsOf(students, editingId) # {}
            /\ \A i \in DOMAIN students :
                  students[i].sid = Submitted(filled).sid => students[i].id = editingId
            /\ ~FailsValidation(filled)
            /\ SubmitStep(filled) )
          => \E p \in PositionsOf(students, editingId) :
                /\ \A q \in PositionsOf(students, editingId) : p <= q
                /\ Len(students') = Len(students)
                /\ students'[p] = [id |-> editingId,
                                   name |-> Submitted(filled).name,
                                   sid |-> Submitted(filled).sid,
                                   email |-> Submitted(filled).email,
                                   contact |-> Submitted(filled).contact]
                /\ \A q \in DOMAIN students : q # p => students'[q] = students[q]
                /\ editingId' = NoId
                /\ saveBtn' = "Save"]_vars

\* an update that changed the sid and the contact of the second of two records
C5_Witness ==
    /\ last = "updated"
    /\ editingId = NoId
    /\ saveBtn = "Save"
    /\ Len(students) = 2
    /\ students[1].id # students[2].id
    /\ students[1].sid = <<"1">>
    /\ students[2].sid = <<"2">>
    /\ students[1].contact = D10
    /\ students[2].contact = M10

\* C6: the contact of every record of the roster consists of digits only and
\* is exactly 10 characters long.
C6_ContactTenDigits ==
    \A i \in DOMAIN students :
        Len(students[i].contact) = 10 /\ AllIn(students[i].contact, Digits)

RequiredMsg == "Contact number is required"
ExactlyMsg == "Contact number must be exactly 10 digits"

\* C7: the contact check the submit handler uses answers "Contact number is
\* required" for a value empty after trimming, "Contact number must be
\* exactly 10 digits" for every other value whose trimmed length is not 10,
\* and nothing for ten digits; and a submit whose contact has a trimmed
\* length other than 10 shows that answer and leaves the roster as it was.
C7_ContactCheck ==
    /\ [](probe.field = "contact" =>
            /\ Trim(probe.raw) = <<>> => probe.msg = RequiredMsg
            /\ Trim(probe.raw) # <<>> /\ Len(Trim(probe.raw)) # 10 => probe.msg = ExactlyMsg
            /\ Len(Trim(probe.raw)) = 10 /\ AllIn(Trim(probe.raw), Digits) => probe.msg = "")
    /\ [][(SubmitProbe /\ Len(Trim(probe.raw)) # 10) =>
            /\ students' = students
            /\ errs'.contact = IF Trim(probe.raw) = <<>> THEN RequiredMsg ELSE ExactlyMsg]_vars

\* eleven digits: given to the contact check, and submitted and rejected
C7_Witness ==
    /\ probe = [raw |-> D11, field |-> "contact", msg |-> ExactlyMsg]
    /\ last = "rejected"
    /\ form.contact = D11
    /\ errs.contact = ExactlyMsg
    /\ Len(students) = 1

\* C8: a delete whose confirmation is declined changes neither the roster,
\* nor the edit state, nor the slot, and writes nothing to the slot.
C8_DeclinedDeleteChangesNothing ==
    [][\A id \in Ids :
          DeleteClick(id, FALSE) =>
            /\ students' = students
            /\ editingId' = editingId
            /\ saveBtn' = saveBtn
            /\ slot' = slot
            /\ wrote' = FALSE]_vars

C8_Witness ==
    /\ last = "declined"
    /\ Len(students) = 2
    /\ editingId # NoId
    /\ ~wrote

\* C9: a confirmed delete of id leaves no record with that id, keeps every
\* other record, unchanged and in order, and shortens the roster by exactly
\* one if a record had that id and by nothing otherwise.
C9_DeleteRemovesOne ==
    [][\A id \in Ids :
          DeleteClick(id, TRUE) =>
            /\ PositionsOf(students', id) = {}
            /\ students' = SelectSeq(students, LAMBDA s : s.id # id)
            /\ Len(students') =
                 Len(students) - (IF PositionsOf(students, id) # {} THEN 1 ELSE 0)]_vars

\* C10: a submit for which a validator returns a message changes neither the
\* roster, nor the slot, nor the controller state.
C10_InvalidSubmitChangesNothing ==
    [][\A filled \in MaybeSubmitted :
          (FailsValidation(filled) /\ SubmitStep(filled)) =>
            /\ students' = students
            /\ slot' = slot
            /\ wrote' = FALSE
            /\ editingId' = editingId
            /\ saveBtn' = saveBtn]_vars

\* an invalid form submitted while a record of the roster is being edited
C10_Witness ==
    /\ last = "rejected"
    /\ editingId # NoId
    /\ saveBtn = "Update"
    /\ PositionsOf(students, editingId) # {}
    /\ \E f \in Fields : errs[f] # ""

\* the message the validator of field f returns for the form's value of f
MessageOf(filled, f) == validatorOf(f, Submitted(filled)[f])

\* C11: after a submit that fails validation every field shows the message its
\* validator returned for the submitted value, so the fields showing an error
\* are exactly the fields whose validator returned one; a failing field never
\* hides the error of a later one.
C11_AllErrorsShown ==
    [][\A filled \in MaybeSubmitted :
          (FailsValidation(filled) /\ SubmitStep(filled)) =>
            /\ \A f \in Fields : errs'[f] = MessageOf(filled, f)
            /\ {f \in Fields : errs'[f] # ""} =
                 {f \in Fields : MessageOf(filled, f) # ""}]_vars

\* a rejected submit whose name, email and contact fail and whose sid passes
C11_Witness ==
    /\ last = "rejected"
    /\ errs.name = "Name is required"
    /\ errs.sid = ""
    /\ errs.email = "Email is required"
    /\ errs.contact = "Contact number must be exactly 10 digits"
    /\ form.sid = <<"1">>

\* the records of list at the positions of K, in the order of list
Kept_At(list, K) ==
    LET idxs == SelectSeq([i \in 1..Len(list) |-> i], LAMBDA i : i \in K)
    IN  [j \in 1..Len(idxs) |-> list[idxs[j]]]

\* C12: every step leaves the roster in insertion order.  An add puts the new
\* record after the records there were, which keep their positions; any other
\* step leaves the roster as it was, or replaces one record at its position
\* by a record of the same id, or removes records and keeps the others in
\* the order they had.
C12_InsertionOrder ==
    [][/\ last' = "added" =>
            /\ Len(students') = Len(students) + 1
            /\ SubSeq(students', 1, Len(students)) = students
       /\ \/ students' = students
          \/ /\ Len(students') = Len(students) + 1
             /\ SubSeq(students', 1, Len(students)) = students
          \/ /\ Len(students') = Len(students)
             /\ \E i \in DOMAIN students :
                   /\ students'[i].id = students[i].id
                   /\ \A q \in DOMAIN students \ {i} : students'[q] = students[q]
          \/ \E K \in SUBSET DOMAIN students : students' = Kept_At(students, K)]_vars

\* the second of two records, added after the first, is what a delete of the
\* first leaves
C12_Witness ==
    /\ last = "deleted"
    /\ Len(students) = 1
    /\ students[1].id = <<"k", "2">>
    /\ students[1].sid = <<"2">>
    /\ table.rows[1].num = 1

\* C13: starting from an empty roster, no two records of the roster have the
\* same id, whatever the sequence of add, update and delete operations.
C13_UniqueId ==
    \A i, j \in DOMAIN students : students[i].id = students[j].id => i = j

\* C14: in every reachable state the submit button reads "Update" exactly
\* when an edit target is set and "Save" exactly when none is; the edit
\* target is one id or none.
C14_LabelFollowsEditState ==
    /\ editingId \in Ids \cup {NoId}
    /\ saveBtn = "Update" <=> editingId # NoId
    /\ saveBtn = "Save" <=> editingId = NoId

\* back in Adding after an update, with the label restored
C14_Witness ==
    /\ last = "updated"
    /\ editingId = NoId
    /\ saveBtn = "Save"
    /\ Len(students) = 1

\* C15: the Clear button, pressed in Adding or in Editing(id), leaves the
\* roster and the slot as they were and writes nothing, empties the four
\* fields and the four error messages, and leaves no edit target.
C15_ClearResetsForm ==
    [][Clear =>
         /\ students' = students
         /\ slot' = slot
         /\ wrote' = FALSE
         /\ form' = [f \in Fields |-> <<>>]
         /\ errs' = [f \in Fields |-> ""]
         /\ editingId' = NoId]_vars

\* Clear pressed on a roster of two records
C15_Witness ==
    /\ last = "clear"
    /\ Len(students) = 2
    /\ editingId = NoId
    /\ form.name = <<>> /\ form.contact = <<>>
    /\ errs.sid = ""
    /\ loadFromStorage(slot) = students

\* a list whose elements are records with string fields, as addStudent and
\* updateStudent make them
IsRoster(list) == \A i \in DOMAIN list : list[i] \notin {Infinity, Null}

\* C16: loadFromStorage raises nothing to its caller; it returns the empty
\* list when the slot is absent, holds the empty string, holds text that is
\* not JSON, or holds JSON that is not an array; it returns the roster when
\* the slot holds the text of a roster; and the roster the page starts with
\* is what it returns.
C16_LoadTotal ==
    /\ ~loadCall(slot).raised
    /\ slot \in { NoItem, Item(<<>>), Item(<<Tok("["), Tok("{")>>),
                  Item(<<StrTok(<<"x">>)>>) } => loadFromStorage(slot) = <<>>
    /\ (slot.present /\ slot.text # <<>> /\ ~ParseJSON(slot.text).isArray)
          => loadFromStorage(slot) = <<>>
    /\ \A r \in {<<>>, SavedRoster, students} :
          (IsRoster(r) /\ slot = Item(Stringify(r))) => loadFromStorage(slot) = r
    /\ last = "init" => students = loadFromStorage(slot)

\* the page loaded on a slot whose text is not JSON
C16_Witness ==
    /\ last = "init"
    /\ slot = Item(<<Tok("["), Tok("{")>>)
    /\ students = <<>>
    /\ table.placeholder

\* C17 as stated: for every content of the slot the page may start on, load
\* after save of what load returned returns what load returned; and for every
\* roster of records, load after save of it returns it.
C17_RoundTrip ==
    /\ loadFromStorage(saveToStorage(loadFromStorage(slot))) = loadFromStorage(slot)
    /\ IsRoster(students) => loadFromStorage(saveToStorage(students)) = students

\* C17, amended: whenever load returns a list of records (the slot is absent,
\* empty, not JSON, not an array, or an array of records with string fields),
\* load after save of what load returned returns the same list; and for every
\* roster of records, load after save of it returns it.
C17_RoundTripOfRecords ==
    /\ IsRoster(loadFromStorage(slot)) =>
          loadFromStorage(saveToStorage(loadFromStorage(slot))) = loadFromStorage(slot)
    /\ IsRoster(students) => loadFromStorage(saveToStorage(students)) = students

\* a saved roster of two records, one of them with letters in its contact
C17_Witness ==
    /\ Len(students) = 2
    /\ IsRoster(students)
    /\ students[2].contact = M10
    /\ slot = saveToStorage(students)
    /\ loadFromStorage(slot) = students

\* C18: after the load and after every handler the table shows the roster:
\* the placeholder row exactly when the roster is empty, else one row per
\* record, in the order of the roster, numbered from 1, whose cells show the
\* record's name, sid, email and contact and whose buttons carry its id.
C18_TableShowsRoster ==
    /\ table.placeholder <=> students = <<>>
    /\ DOMAIN table.rows = DOMAIN students
    /\ \A i \in DOMAIN students :
          /\ table.rows[i].num = i
          /\ CellText(table.rows[i].name) = students[i].name
          /\ CellText(table.rows[i].sid) = students[i].sid
          /\ CellText(table.rows[i].email) = students[i].email
          /\ CellText(table.rows[i].contact) = students[i].contact
          /\ table.rows[i].dataId = students[i].id

\* after an update of the second of two records, whose email has characters
\* that the markup writes as references
C18_Witness ==
    /\ last = "updated"
    /\ Len(students) = 2
    /\ students[2].email = <<"&", "@", "<", ".", "c">>
    /\ table.rows[2].email # students[2].email
    /\ CellText(table.rows[2].email) = students[2].email
    /\ students[1].email = <<"a", "@", "b", ".", "c">>

\* what a valid submit in Editing(id) does with the edited record and with
\* the records that hold the submitted sid
EditedRecordOnly ==
    \A filled \in MaybeSubmitted :
        ( /\ editingId # NoId
          /\ ~FailsValidation(filled)
          /\ SubmitStep(filled) )
        => \A idx \in {findIndex(students, editingId)} :
             \A others \in {{j \in DOMAIN students :
                                j # idx /\ students[j].sid = Submitted(filled).sid}} :
               /\ (idx # 0 /\ others = {} /\ students[idx].sid = Submitted(filled).sid)
                    => /\ students' = [students EXCEPT
                                          ![idx] = Student(editingId, Submitted(filled))]
                       /\ editingId' = NoId
               /\ others # {}
                    => /\ errs' = [name |-> "", sid |-> "This Student ID already exists",
                                   email |-> "", contact |-> ""]
                       /\ students' = students
                       /\ editingId' = editingId

\* C19: in Editing(id) the duplicate check leaves out the edited record and
\* no other: a valid submit whose sid is the edited record's own sid, and no
\* other record's, replaces the record and ends the edit; a valid submit
\* whose sid is the sid of another record shows the sid error alone, and
\* leaves the roster as it was and the edit target set.
C19_OnlyEditedRecordExcluded == [][EditedRecordOnly]_vars

\* what holds instead: the same, from rosters whose ids are all different
C19_WithUniqueIds == [][C13_UniqueId => EditedRecordOnly]_vars

\* C20: in every reachable state, an edit target that is set is the id of a
\* record of the roster, also after a confirmed delete of the edited record.
C20_EditTargetExists ==
    editingId # NoId => PositionsOf(students, editingId) # {}

====
